---- MODULE Spec2Model ----
(***************************************************************************)
(* Expense tracker: the Expense record (expenses.rs) and the free          *)
(* functions over a Vec<Expense> (operation.rs).                           *)
(*                                                                         *)
(* Amounts are f64.  The model keeps the part of f64 that the operations   *)
(* can observe: exact small integers, the largest finite magnitude         *)
(* (f64::MAX and its negation), the two infinities and NaN.  Addition and  *)
(* comparison on these values are computed as IEEE 754 binary64 computes   *)
(* them (round to nearest): a small integer added to f64::MAX is absorbed, *)
(* f64::MAX + f64::MAX overflows to +inf, inf + (-inf) is NaN, and NaN is  *)
(* unordered with everything.                                              *)
(***************************************************************************)
EXTENDS Integers, Sequences, FiniteSets, TLC

VARIABLES expenses, call, result, n_adds

vars == <<expenses, call, result, n_adds>>

\* Longest collection explored.
MaxLen == 3

-----------------------------------------------------------------------------
(* f64 values *)

Fin(n) == [cls |-> "fin", v |-> n]

\* s * f64::MAX, s in {-1, 1}
Huge(s) == [cls |-> "huge", v |-> s]

\* s * infinity, s in {-1, 1}
Inf(s) == [cls |-> "inf", v |-> s]

NaN == [cls |-> "nan", v |-> 0]

\* Position of a non-NaN value on the number line, small integers all in band 0.
Band(a) == IF a.cls = "inf" THEN 2 * a.v ELSE IF a.cls = "huge" THEN a.v ELSE 0

\* a < b on f64 (false whenever an operand is NaN)
f64_lt(a, b) ==
    /\ a.cls # "nan"
    /\ b.cls # "nan"
    /\ \/ Band(a) < Band(b)
       \/ a.cls = "fin" /\ b.cls = "fin" /\ a.v < b.v

\* a + b on f64, round to nearest.
f64_add(a, b) ==
    IF a.cls = "nan" \/ b.cls = "nan" THEN NaN
    ELSE IF a.cls = "inf" /\ b.cls = "inf" THEN (IF a.v = b.v THEN a ELSE NaN)
    ELSE IF a.cls = "inf" THEN a
    ELSE IF b.cls = "inf" THEN b
    ELSE IF a.cls = "huge" /\ b.cls = "huge" THEN (IF a.v = b.v THEN Inf(a.v) ELSE Fin(0))
    ELSE IF a.cls = "huge" THEN a
    ELSE IF b.cls = "huge" THEN b
    ELSE Fin(a.v + b.v)

\* f64::partial_cmp: None when the operands are unordered.
partial_cmp(a, b) ==
    IF a.cls = "nan" \/ b.cls = "nan" THEN "None"
    ELSE IF f64_lt(a, b) THEN "Less"
    ELSE IF f64_lt(b, a) THEN "Greater"
    ELSE "Equal"

-----------------------------------------------------------------------------
(* Inputs *)

Amounts == {Huge(-1), Fin(1), Fin(2), Huge(1), NaN}

Categories == {"food", "rent"}

Dates == {"2026-01-07", "2026-01-08"}

-----------------------------------------------------------------------------
(* expenses.rs *)

Expense_new(amount, category, date) ==
    [amount |-> amount, category |-> category, date |-> date]

-----------------------------------------------------------------------------
(* operation.rs: the functions *)

\* Option<&Expense>: the reference is the element's position in the Vec.
None == [tag |-> "None", idx |-> 0]

Some(i) == [tag |-> "Some", idx |-> i]

\* The call unwound instead of returning.
Panicked == [tag |-> "Panic", idx |-> 0]

\* A push that drops an expense the Vec already holds.
push_dedup(v, e) == IF \E i \in 1..Len(v) : v[i] = e THEN v ELSE Append(v, e)

\* A push that inserts at the front.
push_front(v, e) == <<e>> \o v

\* Vec::push
push(v, e) == Append(v, e)

\* iter().filter(|e| e.category == category).collect()
RECURSIVE filter_category(_, _, _)
filter_category(v, category, i) ==
    IF i > Len(v) THEN <<>>
    ELSE IF v[i].category = category THEN <<i>> \o filter_category(v, category, i + 1)
    ELSE filter_category(v, category, i + 1)

\* iter().filter(|e| e.date == date).collect(): references, in iteration order.
RECURSIVE filter_date(_, _, _)
filter_date(v, date, i) ==
    IF i > Len(v) THEN <<>>
    ELSE IF v[i].date = date THEN <<i>> \o filter_date(v, date, i + 1)
    ELSE filter_date(v, date, i + 1)

view_expenses_by_date(v, date) == filter_date(v, date, 1)

\* A filter that collects in reverse.
RECURSIVE filter_category_rev(_, _, _)
filter_category_rev(v, category, i) ==
    IF i > Len(v) THEN <<>>
    ELSE IF v[i].category = category THEN filter_category_rev(v, category, i + 1) \o <<i>>
    ELSE filter_category_rev(v, category, i + 1)

get_by_category_rev(v, category) == filter_category_rev(v, category, 1)

get_by_category(v, category) == filter_category(v, category, 1)

\* iter().map(|e| e.amount).sum(): left fold of + from zero.
RECURSIVE sum_from(_, _, _)
sum_from(v, acc, i) ==
    IF i > Len(v) THEN acc ELSE sum_from(v, f64_add(acc, v[i].amount), i + 1)

\* A sum that misses the first element.
calculate_total_skip_first(v) == sum_from(v, Fin(0), 2)

calculate_total(v) == sum_from(v, Fin(0), 1)

\* iter().filter(|e| e.category == category).count()
RECURSIVE count_from(_, _, _, _)
count_from(v, category, n, i) ==
    IF i > Len(v) THEN n
    ELSE count_from(v, category, IF v[i].category = category THEN n + 1 ELSE n, i + 1)

count_by_category(v, category) == count_from(v, category, 0, 1)

\* iter().filter(..).map(|e| e.amount).sum()
RECURSIVE sum_category_from(_, _, _, _)
sum_category_from(v, category, acc, i) ==
    IF i > Len(v) THEN acc
    ELSE sum_category_from(v, category,
            IF v[i].category = category THEN f64_add(acc, v[i].amount) ELSE acc, i + 1)

\* A category total that forgets the filter.
total_by_category_unfiltered(v, category) == calculate_total(v)

total_by_category(v, category) == sum_category_from(v, category, Fin(0), 1)

\* partial_cmp(..).unwrap(): the draft's comparator, panics on None.
compare_unwrap(a, b) ==
    IF partial_cmp(a, b) = "None" THEN "Panic" ELSE partial_cmp(a, b)

\* |a, b| a.amount.partial_cmp(&b.amount).unwrap_or(Ordering::Equal)
compare_amount(a, b) ==
    IF partial_cmp(a, b) = "None" THEN "Equal" ELSE partial_cmp(a, b)

\* A max_by that keeps the earlier of two equal elements.
max_by_keep_first(x, y, ord) == IF ord = "Less" THEN y ELSE x

\* Iterator::max_by's step: the later element wins unless the earlier is Greater.
max_by_select(x, y, ord) == IF ord = "Greater" THEN x ELSE y

\* A min_by that takes the later of two equal elements.
min_by_keep_last(x, y, ord) == IF ord = "Less" THEN x ELSE y

\* Iterator::min_by's step: the earlier element wins unless it is Greater.
min_by_select(x, y, ord) == IF ord = "Greater" THEN y ELSE x

\* Iterator::max_by: reduce over the elements, best is the index kept so far.
RECURSIVE max_by(_, _, _)
max_by(v, best, i) ==
    IF i > Len(v) THEN Some(best)
    ELSE LET ord == compare_amount(v[best].amount, v[i].amount)
         IN  IF ord = "Panic" THEN Panicked
             ELSE max_by(v, max_by_select(best, i, ord), i + 1)

\* Iterator::min_by
RECURSIVE min_by(_, _, _)
min_by(v, best, i) ==
    IF i > Len(v) THEN Some(best)
    ELSE LET ord == compare_amount(v[best].amount, v[i].amount)
         IN  IF ord = "Panic" THEN Panicked
             ELSE min_by(v, min_by_select(best, i, ord), i + 1)

find_max(v) == IF Len(v) = 0 THEN None ELSE max_by(v, 1, 2)

find_min(v) == IF Len(v) = 0 THEN None ELSE min_by(v, 1, 2)

-----------------------------------------------------------------------------
(* State machine: a caller owning one Vec<Expense> and calling the functions *)

Init ==
    /\ expenses = <<>>
    /\ call = [op |-> "new", arg |-> ""]
    /\ result = <<>>
    /\ n_adds = 0

add_expense(amount, category, date) ==
    /\ Len(expenses) < MaxLen
    /\ expenses' = push(expenses, Expense_new(amount, category, date))
    /\ call' = [op |-> "add_expense", arg |-> <<amount, category, date>>]
    /\ result' = <<>>
    /\ n_adds' = n_adds + 1

CallViewExpensesByDate(date) ==
    /\ call' = [op |-> "view_expenses_by_date", arg |-> date]
    /\ result' = view_expenses_by_date(expenses, date)
    /\ UNCHANGED <<expenses, n_adds>>

CallCalculateTotal ==
    /\ call' = [op |-> "calculate_total", arg |-> ""]
    /\ result' = calculate_total(expenses)
    /\ UNCHANGED <<expenses, n_adds>>

\* A query that takes the matching expenses out of the Vec (drain instead of iter).
CallGetByCategoryDrain(category) ==
    /\ call' = [op |-> "get_by_category", arg |-> category]
    /\ result' = get_by_category(expenses, category)
    /\ expenses' = SelectSeq(expenses, LAMBDA e : e.category # category)
    /\ UNCHANGED n_adds

CallGetByCategory(category) ==
    /\ call' = [op |-> "get_by_category", arg |-> category]
    /\ result' = get_by_category(expenses, category)
    /\ UNCHANGED <<expenses, n_adds>>

CallCountByCategory(category) ==
    /\ call' = [op |-> "count_by_category", arg |-> category]
    /\ result' = count_by_category(expenses, category)
    /\ UNCHANGED <<expenses, n_adds>>

CallFindMax ==
    /\ call' = [op |-> "find_max", arg |-> ""]
    /\ result' = find_max(expenses)
    /\ UNCHANGED <<expenses, n_adds>>

CallFindMin ==
    /\ call' = [op |-> "find_min", arg |-> ""]
    /\ result' = find_min(expenses)
    /\ UNCHANGED <<expenses, n_adds>>

CallTotalByCategory(category) ==
    /\ call' = [op |-> "total_by_category", arg |-> category]
    /\ result' = total_by_category(expenses, category)
    /\ UNCHANGED <<expenses, n_adds>>

Next ==
    \/ \E a \in Amounts, c \in Categories, d \in Dates : add_expense(a, c, d)
    \/ \E d \in Dates : CallViewExpensesByDate(d)
    \/ CallCalculateTotal
    \/ \E c \in Categories : CallGetByCategory(c)
    \/ \E c \in Categories : CallCountByCategory(c)
    \/ CallFindMax
    \/ CallFindMin
    \/ \E c \in Categories : CallTotalByCategory(c)

Spec == Init /\ [][Next]_vars

-----------------------------------------------------------------------------
(* Vocabulary of the properties *)

Indices(v) == 1..Len(v)

\* a == b on f64 (false whenever an operand is NaN)
f64_eq(a, b) == a.cls # "nan" /\ b.cls # "nan" /\ a = b

\* a <= b on f64
f64_le(a, b) == f64_lt(a, b) \/ f64_eq(a, b)

\* v[i] holds a greatest amount: it is >= every element's amount (IEEE >=,
\* so no element of v is NaN when some index satisfies this).
IsGreatest(v, i) == \A j \in Indices(v) : f64_le(v[j].amount, v[i].amount)

\* v[i] holds a least amount: it is <= every element's amount.
IsLeast(v, i) == \A j \in Indices(v) : f64_le(v[i].amount, v[j].amount)

GreatestSet(v) == {i \in Indices(v) : IsGreatest(v, i)}

LeastSet(v) == {i \in Indices(v) : IsLeast(v, i)}

HasNaN(v) == \E i \in Indices(v) : v[i].amount = NaN

AllFin(v) == \A i \in Indices(v) : v[i].amount.cls = "fin"

\* The arithmetic sum of integer amounts, taken from the last element down.
RECURSIVE IntSum(_)
IntSum(v) == IF Len(v) = 0 THEN 0 ELSE IntSum(SubSeq(v, 1, Len(v) - 1)) + v[Len(v)].amount.v

\* v with the elements at i and j exchanged.  Transpositions generate every
\* permutation, and the reachable collections are closed under them.
Swap(v, i, j) == [k \in Indices(v) |-> IF k = i THEN v[j] ELSE IF k = j THEN v[i] ELSE v[k]]

\* The elements a Vec<&Expense> refers to.
Deref(v, refs) == [k \in 1..Len(refs) |-> v[refs[k]]]

StrictlyIncreasing(refs) == \A k \in 1..(Len(refs) - 1) : refs[k] < refs[k + 1]

Range(f) == {f[k] : k \in DOMAIN f}

IsPrefix(u, v) == Len(u) <= Len(v) /\ SubSeq(v, 1, Len(u)) = u

QueryOps ==
    {"view_expenses_by_date", "calculate_total", "get_by_category", "count_by_category",
     "find_max", "find_min", "total_by_category"}

-----------------------------------------------------------------------------
(* C1 *)

\* C1 as stated: when two or more expenses share the greatest amount, find_max
\* returns the earliest inserted of them (the lowest index among the maxima).
C1_FirstMaxWins ==
    (call.op = "find_max" /\ Cardinality(GreatestSet(expenses)) >= 2) =>
        /\ result.tag = "Some"
        /\ result.idx \in GreatestSet(expenses)
        /\ \A j \in GreatestSet(expenses) : result.idx <= j

\* C1 amended: when two or more expenses share the greatest amount, find_max
\* returns the latest inserted of them (the highest index among the maxima).
C1_LastMaxWins ==
    (call.op = "find_max" /\ Cardinality(GreatestSet(expenses)) >= 2) =>
        /\ result.tag = "Some"
        /\ result.idx \in GreatestSet(expenses)
        /\ \A j \in GreatestSet(expenses) : j <= result.idx

\* find_max has run on three expenses, the first two tied for the maximum and
\* the third smaller; it returned the second.
C1_Witness ==
    /\ call.op = "find_max"
    /\ Len(expenses) = 3
    /\ GreatestSet(expenses) = {1, 2}
    /\ result = Some(2)

-----------------------------------------------------------------------------
(* C2 *)

\* C2: when two or more expenses share the least amount, find_min returns the
\* earliest inserted of them (the lowest index among the minima).
C2_FirstMinWins ==
    (call.op = "find_min" /\ Cardinality(LeastSet(expenses)) >= 2) =>
        /\ result.tag = "Some"
        /\ result.idx \in LeastSet(expenses)
        /\ \A j \in LeastSet(expenses) : result.idx <= j

\* find_min has run on three expenses, the last two tied for the minimum; it
\* returned the second.
C2_Witness ==
    /\ call.op = "find_min"
    /\ Len(expenses) = 3
    /\ LeastSet(expenses) = {2, 3}
    /\ result = Some(2)

-----------------------------------------------------------------------------
(* C3 *)

\* C3: on a non-empty collection find_max returns an element with no element
\* above it, and find_min an element with no element below it.  ">=" is read
\* here in the way most favourable to the code: an amount unordered with the
\* returned one (NaN) does not count against it.
C3_ExtremumBounds ==
    /\ (call.op = "find_max" /\ Len(expenses) > 0) =>
           /\ result.tag = "Some"
           /\ result.idx \in Indices(expenses)
           /\ \A j \in Indices(expenses) :
                  ~f64_lt(expenses[result.idx].amount, expenses[j].amount)
    /\ (call.op = "find_min" /\ Len(expenses) > 0) =>
           /\ result.tag = "Some"
           /\ result.idx \in Indices(expenses)
           /\ \A j \in Indices(expenses) :
                  ~f64_lt(expenses[j].amount, expenses[result.idx].amount)

-----------------------------------------------------------------------------
(* C4 *)

\* C4: find_max and find_min never panic, and return None exactly when the
\* collection is empty, NaN amounts included.
C4_NoneIffEmpty ==
    call.op \in {"find_max", "find_min"} =>
        /\ result.tag # "Panic"
        /\ result.tag = "None" <=> Len(expenses) = 0
        /\ result.tag = "Some" => result.idx \in Indices(expenses)

\* find_min has run on a collection holding a NaN next to an ordinary amount
\* and returned an element.
C4_Witness ==
    /\ call.op = "find_min"
    /\ Len(expenses) >= 2
    /\ HasNaN(expenses)
    /\ \E i \in Indices(expenses) : expenses[i].amount # NaN
    /\ result.tag = "Some"

-----------------------------------------------------------------------------
(* C5 *)

\* C5: after N add_expense calls the length is N, and each add_expense appends
\* exactly one element holding the given amount, category and date, whether
\* or not an identical expense is already there.
C5_LengthIsAdds ==
    /\ [](Len(expenses) = n_adds)
    /\ [][call'.op = "add_expense" /\ n_adds' = n_adds + 1 =>
            /\ Len(expenses') = Len(expenses) + 1
            /\ SubSeq(expenses', 1, Len(expenses)) = expenses
            /\ expenses'[Len(expenses')].amount = call'.arg[1]
            /\ expenses'[Len(expenses')].category = call'.arg[2]
            /\ expenses'[Len(expenses')].date = call'.arg[3]]_vars

\* add_expense has just appended an expense identical to one already held.
C5_Witness ==
    /\ call.op = "add_expense"
    /\ Len(expenses) = 3
    /\ n_adds = 3
    /\ expenses[3] = expenses[1]

-----------------------------------------------------------------------------
(* C6 *)

\* C6 as stated: calculate_total is 0 on the empty collection, the arithmetic
\* sum of the amounts, and the same for every permutation of the collection.
C6_OrderIndependent ==
    call.op = "calculate_total" =>
        /\ Len(expenses) = 0 => result = Fin(0)
        /\ AllFin(expenses) => result = Fin(IntSum(expenses))
        /\ \A i, j \in Indices(expenses) : calculate_total(Swap(expenses, i, j)) = result

\* C6 amended: calculate_total is 0 on the empty collection; when every amount
\* is an integer small enough for every partial sum to be exact, it is the
\* arithmetic sum and the same for every permutation.
C6_ExactWhenSmall ==
    call.op = "calculate_total" =>
        /\ Len(expenses) = 0 => result = Fin(0)
        /\ AllFin(expenses) =>
               /\ result = Fin(IntSum(expenses))
               /\ \A i, j \in Indices(expenses) :
                      calculate_total(Swap(expenses, i, j)) = result

\* calculate_total has run on three small amounts that are not all equal.
C6_Witness ==
    /\ call.op = "calculate_total"
    /\ Len(expenses) = 3
    /\ AllFin(expenses)
    /\ expenses[1].amount # expenses[2].amount
    /\ result = Fin(IntSum(expenses))

-----------------------------------------------------------------------------
(* C7 *)

\* C7: get_by_category and view_expenses_by_date return the matching elements,
\* each once, in their original order, and nothing else.
C7_ExactSubsequence ==
    /\ call.op = "get_by_category" =>
           /\ StrictlyIncreasing(result)
           /\ Range(result) = {i \in Indices(expenses) : expenses[i].category = call.arg}
    /\ call.op = "view_expenses_by_date" =>
           /\ StrictlyIncreasing(result)
           /\ Range(result) = {i \in Indices(expenses) : expenses[i].date = call.arg}

\* get_by_category has returned the first and third of three expenses.
C7_Witness ==
    /\ call.op = "get_by_category"
    /\ Len(expenses) = 3
    /\ result = <<1, 3>>

-----------------------------------------------------------------------------
(* C8 *)

\* C8: total_by_category is calculate_total of get_by_category's result, and
\* count_by_category is its length; 0 when nothing matches.
C8_CategoryAggregates ==
    /\ call.op = "total_by_category" =>
           /\ result = calculate_total(Deref(expenses, get_by_category(expenses, call.arg)))
           /\ get_by_category(expenses, call.arg) = <<>> => result = Fin(0)
    /\ call.op = "count_by_category" =>
           /\ result = Len(get_by_category(expenses, call.arg))
           /\ get_by_category(expenses, call.arg) = <<>> => result = 0

\* total_by_category has run on a collection where the category selects two of
\* three expenses.
C8_Witness ==
    /\ call.op = "total_by_category"
    /\ Len(expenses) = 3
    /\ Len(get_by_category(expenses, call.arg)) = 2

-----------------------------------------------------------------------------
(* C9 *)

\* What the query recorded in call returns on the collection as it is now.
Requery ==
    CASE call.op = "view_expenses_by_date" -> view_expenses_by_date(expenses, call.arg)
      [] call.op = "calculate_total" -> calculate_total(expenses)
      [] call.op = "get_by_category" -> get_by_category(expenses, call.arg)
      [] call.op = "count_by_category" -> count_by_category(expenses, call.arg)
      [] call.op = "find_max" -> find_max(expenses)
      [] call.op = "find_min" -> find_min(expenses)
      [] call.op = "total_by_category" -> total_by_category(expenses, call.arg)
      [] OTHER -> result

\* C9: a query leaves the collection as it was, so asking the same query again
\* gives the result it just gave; only add_expense changes the collection.
C9_QueriesReadOnly ==
    /\ [](call.op \in QueryOps => result = Requery)
    /\ [][call'.op \in QueryOps => expenses' = expenses]_vars
    /\ [][expenses' # expenses => call'.op = "add_expense"]_vars

\* get_by_category has returned matches from a full collection.
C9_Witness ==
    /\ call.op = "get_by_category"
    /\ Len(expenses) = MaxLen
    /\ Len(result) >= 1
    /\ result = Requery

-----------------------------------------------------------------------------
(* C10 *)

\* C10: the collection is append-only: each step leaves the earlier collection
\* as a prefix of the later one.
C10_AppendOnly == [][IsPrefix(expenses, expenses')]_vars

\* A query has run after the collection grew to two or more expenses.
C10_Witness ==
    /\ call.op = "count_by_category"
    /\ Len(expenses) >= 2
    /\ n_adds = Len(expenses)

====
